---- MODULE Spec2Model ----
(***************************************************************************)
(* A model of src/CODI.py: the class CODI, its constructor and             *)
(* generate_samples, with the NumPy operations it relies on (astype,       *)
(* tile, mean, boolean-mask selection, matmul, in-place broadcast add,     *)
(* vstack, hstack, RandomState.normal) modelled by what they compute.      *)
(*                                                                         *)
(* float64 numbers are fixed-point integers: the float x is the integer    *)
(* x * Unit; products and quotients round down to a multiple of 1/Unit.    *)
(* NaN is a value of its own that every sum and product propagates.        *)
(***************************************************************************)
EXTENDS Integers, Sequences, FiniteSets

(* ------------------------------ bounds --------------------------------- *)

\* Largest number of rows of an input X (and length of y).
MaxN == 2
\* Largest valid n_per_seed.
MaxK == 3
\* Number of generate_samples calls made on an instance.
MaxCalls == 2

(* --------------------------- float64 values ---------------------------- *)

\* One float unit: the float 1.0.
Unit == 100

\* The float NaN (the mean of no rows).
NaN == -999999

IsNaN(a) == a = NaN

\* An input entry of an integer array converted by astype(float).
ToFloat(dtype, v) ==
    IF dtype = "int" THEN v * Unit ELSE v

FAdd(a, b) ==
    IF IsNaN(a) \/ IsNaN(b) THEN NaN ELSE a + b

FMul(a, b) ==
    IF IsNaN(a) \/ IsNaN(b) THEN NaN ELSE (a * b) \div Unit

\* a / b for b # 0.
FDiv(a, b) ==
    IF IsNaN(a) \/ IsNaN(b) THEN NaN ELSE (a * Unit) \div b

\* np.sqrt of a non-negative float.
FSqrt(a) ==
    CHOOSE r \in 0..(a + Unit) : r * r <= a * Unit /\ a * Unit < (r + 1) * (r + 1)

RECURSIVE SumSeq(_)
SumSeq(s) ==
    IF s = <<>> THEN 0 ELSE FAdd(Head(s), SumSeq(Tail(s)))

(* ------------------------------ arrays --------------------------------- *)

\* A matrix is a sequence of rows, a row a sequence of floats.
NRows(m) == Len(m)

NCols(m) == IF m = <<>> THEN 0 ELSE Len(m[1])

RECURSIVE Concat(_)
Concat(ss) ==
    IF ss = <<>> THEN <<>> ELSE Head(ss) \o Concat(Tail(ss))

\* k copies of the sequence s, one after the other.
Repeat(s, k) == Concat([i \in 1..k |-> s])

(* ------------------------- variability sources ------------------------- *)

\* A zero-argument callable returning a vector of length len: noise
\* "zero" always returns zeros, noise "stream" returns the next values of
\* a random stream of its own (its results differ from run to run).
Callable(noise, len) ==
    [kind |-> "callable", noise |-> noise, len |-> len,
     shape |-> <<>>, data |-> <<>>]

\* A 2-D ndarray given by its rows.
Array2(rows, cols) ==
    [kind |-> "ndarray", noise |-> "", len |-> 0,
     shape |-> <<Len(rows), cols>>, data |-> rows]

\* A 1-D ndarray: its data is kept as rows of one entry each.
Array1(vals) ==
    [kind |-> "ndarray", noise |-> "", len |-> 0,
     shape |-> <<Len(vals)>>, data |-> [i \in 1..Len(vals) |-> <<vals[i]>>]]

\* Anything that is neither callable nor an ndarray (a number, a string).
Other ==
    [kind |-> "other", noise |-> "", len |-> 0, shape |-> <<>>, data |-> <<>>]

GenStream == Callable("stream", 2)
GenZero == Callable("zero", 2)
GenOne == Callable("stream", 1)
GenThree == Callable("stream", 3)
CalSet == Array2(<< <<Unit, -Unit>>, <<2 * Unit, Unit \div 2>> >>, 2)
CalZero == Array2(<< <<0, 0>>, <<0, 0>> >>, 2)
CalRow == Array2(<< <<-Unit, 3 * Unit>> >>, 2)
CalEmpty == Array2(<<>>, 2)
CalCol == Array2(<< <<Unit>>, <<-2 * Unit>> >>, 1)
CalWide == Array2(<< <<Unit, Unit, Unit>> >>, 3)
Vec == Array1(<<Unit, 2 * Unit>>)

\* What the caller passes as variability_sources: a list, a tuple or an
\* ndarray; elems is what iterating it yields (a 2-D ndarray yields its rows
\* as 1-D ndarrays, a 1-D numeric ndarray yields numbers).
Collection(kind, elems) == [kind |-> kind, elems |-> elems]

SourceCollections ==
    {Collection("list", e) : e \in
        {<<>>, <<GenStream>>, <<GenOne>>, <<GenThree>>,
         <<CalSet>>, <<CalEmpty>>, <<CalCol>>, <<CalWide>>,
         <<Vec>>, <<Other>>,
         <<GenStream, CalSet>>, <<CalSet, GenStream>>, <<CalSet, CalRow>>,
         <<GenZero, CalZero>>, <<CalSet, CalWide>>, <<GenStream, Other>>}}
    \cup {Collection("tuple", <<GenStream>>),
          Collection("ndarray", <<Vec, Vec>>),
          Collection("ndarray", <<Other, Other>>)}

\* random_state: None (given FALSE) or an integer seed.
RandomState(given, seed) == [given |-> given, seed |-> seed]

RandomStates == {RandomState(FALSE, 0), RandomState(TRUE, 0)}

\* The streams np.random.RandomState(None) may start from (OS entropy).
EntropyStreams == {0, 1}

(* ------------------------------ inputs --------------------------------- *)

\* X: kind "ndarray" or "list"; data holds one item per index of the
\* first axis, each item kept as a matrix (a number as 1 x 1, a row as
\* 1 x F, a matrix as itself); shape is the ndarray's shape.
XArray(kind, dtype, shape, data) ==
    [kind |-> kind, dtype |-> dtype, shape |-> shape, data |-> data]

\* The 2-D integer matrix [[1,2],[3,4],[5,6],...] cut to n rows.
XInt(n) ==
    XArray("ndarray", "int", <<n, 2>>, [i \in 1..n |-> << <<2 * i - 1, 2 * i>> >>])

\* A 2-D float matrix [[0.5,-1.5],[2.25,0.0],...] cut to n rows.
XFloat(n) ==
    XArray("ndarray", "float", <<n, 2>>,
           [i \in 1..n |-> << <<(Unit \div 2) * i, (Unit \div 4) * (3 - 9 * (i % 2))>> >>])

\* The 1-D integer vector [1,3,5,...] of n entries.
XVec(n) ==
    XArray("ndarray", "int", <<n>>, [i \in 1..n |-> << <<2 * i - 1>> >>])

\* A 3-D integer array of n items [[1,2],[3,4]], [[2,3],[4,5]], ...
XCube(n) ==
    XArray("ndarray", "int", <<n, 2, 2>>,
           [i \in 1..n |-> << <<i, i + 1>>, <<i + 2, i + 3>> >>])

\* A Python list of lists: not an ndarray.
XList == XArray("list", "int", <<1, 2>>, << << <<1, 2>> >> >>)

\* y: kind "none", "ndarray" or "list"; data holds one row per index of the
\* first axis (a 1-D y holds rows of one label each).
YArray(kind, shape, data) ==
    [kind |-> kind, dtype |-> "int", shape |-> shape, data |-> data]

YNone == YArray("none", <<>>, <<>>)

Labels == {0, 1}

\* Every 1-D label vector of length n.
YVecs(n) ==
    {YArray("ndarray", <<n>>, [i \in 1..n |-> <<l[i]>>]) : l \in [1..n -> Labels]}

\* The 2-D label array of shape (n, 2) with rows [0,1].
YMat(n) == YArray("ndarray", <<n, 2>>, [i \in 1..n |-> <<0, 1>>])

YList == YArray("list", <<1>>, << <<0>> >>)

\* n_per_seed: an int, or a number that is not an int (2.0, 1.5).
NPerSeed(isInt, v) == [int |-> isInt, v |-> v]

NValid == {NPerSeed(TRUE, k) : k \in {1, MaxK}}

NFaulty == {NPerSeed(TRUE, 0), NPerSeed(TRUE, -1), NPerSeed(FALSE, 2)}

Strategies == {"all", "mean"}

CallArgs(X, seed_strategy, n_per_seed, y) ==
    [X |-> X, seed_strategy |-> seed_strategy, n_per_seed |-> n_per_seed, y |-> y]

\* The ndarrays tried as X.
XArrays ==
    {XInt(n) : n \in 0..MaxN} \cup {XFloat(1), XVec(2), XCube(1)}

\* The y tried with an X of n items: none, every label vector and, for one
\* item, a 2-D array.
YFor(n) == {YNone} \cup YVecs(n) \cup (IF n = 1 THEN {YMat(1)} ELSE {})

\* Calls whose X is an ndarray and whose y, if any, has as many entries as X.
MatchedCalls ==
    UNION {{CallArgs(X, s, n, y) : s \in Strategies, n \in NValid,
                                   y \in YFor(X.shape[1])} : X \in XArrays}

\* Calls with faulty arguments, around generate_samples(XInt(1), 'all', 1).
FaultyCalls ==
    {CallArgs(X, s, n, y) :
        X \in {XInt(1), XList},
        s \in {"all", "median"},
        n \in {NPerSeed(TRUE, 1)} \cup NFaulty,
        y \in {YNone, YList} \cup YVecs(0)}

Calls == MatchedCalls \cup FaultyCalls

(* ------------------------ CODI.__init__ (7-27) ------------------------- *)

IsCallable(source) == source.kind = "callable"

IsNdarray(source) == source.kind = "ndarray"

\* The sanity checks of the constructor: "ok", or the error raised.
InitCheck(variability_sources) ==
    IF variability_sources.kind \notin {"list", "ndarray"}
    THEN "ValueError"
    ELSE IF \E i \in 1..Len(variability_sources.elems) :
                LET source == variability_sources.elems[i]
                IN  ~IsCallable(source) /\ ~IsNdarray(source)
         THEN "ValueError"
         ELSE "ok"

\* The instance __init__ builds; rand is np.random.RandomState(random_state),
\* a stream and the position reached in it.
NewInstance(variability_sources, random_state, stream) ==
    [live |-> TRUE,
     variability_sources |-> variability_sources,
     random_state |-> random_state,
     rand |-> [stream |-> stream, pos |-> 0]]

NoInstance ==
    [live |-> FALSE,
     variability_sources |-> Collection("list", <<>>),
     random_state |-> RandomState(FALSE, 0),
     rand |-> [stream |-> 0, pos |-> 0]]

(* ----------------------- the random generators ------------------------- *)

\* Standard normal values, as floats.
GaussTable ==
    <<-(Unit + Unit \div 5), (3 * Unit) \div 10, 0, Unit + Unit \div 2,
      -((3 * Unit) \div 5), (9 * Unit) \div 10, Unit \div 10>>

\* The p-th standard normal value (p = 0, 1, ...) of a RandomState stream.
Gauss(stream, p) == GaussTable[((p + 3 * stream) % Len(GaussTable)) + 1]

\* Entry c of the vector a callable returns at its invocation number p.
GenValue(source, p, c) ==
    IF source.noise = "zero" THEN 0 ELSE (((p + c) % 3) - 1) * Unit

(* ------------------ CODI.__get_seed_samples (88-104) ------------------- *)

\* X.astype(float), item by item.
XAsFloat(X) ==
    [i \in 1..Len(X.data) |->
        [r \in 1..Len(X.data[i]) |->
            [c \in 1..Len(X.data[i][r]) |-> ToFloat(X.dtype, X.data[i][r][c])]]]

\* y.astype(float), row by row.
YAsFloat(y) ==
    [i \in 1..Len(y.data) |->
        [c \in 1..Len(y.data[i]) |-> ToFloat(y.dtype, y.data[i][c])]]

\* Rows and columns of one item X[i], kept as a matrix.
ItemRows(shape) == IF Len(shape) = 3 THEN shape[2] ELSE 1

ItemCols(shape) ==
    IF Len(shape) = 1 THEN 1 ELSE IF Len(shape) = 2 THEN shape[2] ELSE shape[3]

\* items.mean(axis=0): the entry-wise mean; NaN entries for no items.
MeanAxis0(items, shape) ==
    [r \in 1..ItemRows(shape) |->
        [c \in 1..ItemCols(shape) |->
            IF Len(items) = 0
            THEN NaN
            ELSE FDiv(SumSeq([i \in 1..Len(items) |-> items[i][r][c]]),
                      ToFloat("int", Len(items)))]]

\* A selection that ignores the mask and keeps every item.
SelectAll(items, labels, lab) == items

\* X[y == y_]: the items whose label equals y_, in order.
RECURSIVE SelectEq(_, _, _)
SelectEq(items, labels, lab) ==
    IF items = <<>>
    THEN <<>>
    ELSE (IF Head(labels) = lab THEN <<Head(items)>> ELSE <<>>)
         \o SelectEq(Tail(items), Tail(labels), lab)

\* Iterating set(y): CPython keeps a float of integer value v < 8 in slot v
\* of the set's table, so the distinct labels come out in ascending order.
RECURSIVE SetIter(_)
SetIter(S) ==
    IF S = {}
    THEN <<>>
    ELSE LET lo == CHOOSE a \in S : \A b \in S : a <= b
         IN  <<lo>> \o SetIter(S \ {lo})

\* The seeds: [status, X_seeds, y_seeds]; an absent label is the empty row.
GetSeedSamples(Xf, yf, hasY, yshape, xshape, seed_strategy) ==
    IF seed_strategy = "all"
    THEN [status |-> "ok",
          X_seeds |-> Xf,
          y_seeds |-> IF hasY THEN yf ELSE [i \in 1..Len(Xf) |-> <<>>]]
    ELSE IF ~hasY
    THEN [status |-> "ok",
          X_seeds |-> <<MeanAxis0(Xf, xshape)>>,
          y_seeds |-> << <<>> >>]
    ELSE IF Len(yshape) > 1 /\ Len(yf) > 0
    THEN \* set(y) of a 2-D y: its rows are ndarrays, which are unhashable
         [status |-> "TypeError", X_seeds |-> <<>>, y_seeds |-> <<>>]
    ELSE LET labels == [i \in 1..Len(yf) |-> yf[i][1]]
             order == SetIter({labels[i] : i \in 1..Len(labels)})
         IN  [status |-> "ok",
              X_seeds |-> [j \in 1..Len(order) |->
                              MeanAxis0(SelectEq(Xf, labels, order[j]), xshape)],
              y_seeds |-> [j \in 1..Len(order) |-> <<order[j]>>]]

(* -------------------- CODI.generate_samples (29-86) -------------------- *)

\* Sanity checks that take any positive number as n_per_seed, int or not.
CheckArgsAnyNumber(c) ==
    IF c.X.kind # "ndarray" THEN "ValueError"
    ELSE IF c.y.kind # "none" /\ c.y.kind # "ndarray" THEN "ValueError"
    ELSE IF c.seed_strategy \notin {"all", "mean"} THEN "ValueError"
    ELSE IF c.n_per_seed.v < 1 THEN "ValueError"
    ELSE IF c.y.kind # "none" /\ c.X.shape[1] # c.y.shape[1] THEN "ValueError"
    ELSE "ok"

\* The sanity checks, in the order the code makes them.
CheckArgs(c) ==
    IF c.X.kind # "ndarray" THEN "ValueError"
    ELSE IF c.y.kind # "none" /\ c.y.kind # "ndarray" THEN "ValueError"
    ELSE IF c.seed_strategy \notin {"all", "mean"} THEN "ValueError"
    ELSE IF ~c.n_per_seed.int \/ c.n_per_seed.v < 1 THEN "ValueError"
    ELSE IF c.y.kind # "none" /\ c.X.shape[1] # c.y.shape[1] THEN "ValueError"
    ELSE "ok"

\* A tiling that leaves the seed as the single row it is.
TileOnce(x_seed, n) == x_seed

\* np.tile(x_seed, (n, 1)): n copies of the seed, one below the other.
Tile(x_seed, n) == Repeat(x_seed, n)

\* np.array([source() for i in range(n)]): one invocation per row.
GenBlock(source, n, noisePos) ==
    [nd |-> 2,
     rows |-> [j \in 1..n |->
                 [c \in 1..source.len |-> GenValue(source, noisePos + j - 1, c)]]]

\* A draw that fills the matrix column by column: entry (i, j) is draw
\* number (j-1)*m+(i-1).
NormalByColumn(stream, pos, std, m, n) ==
    [i \in 1..m |->
        [j \in 1..n |-> FMul(std, Gauss(stream, pos + (j - 1) * m + (i - 1)))]]

\* self.rand.normal(0, std, (m, n)): entry (i, j) is draw number (i-1)*n+(j-1)
\* after the position pos, scaled by std.
Normal(stream, pos, std, m, n) ==
    [i \in 1..m |->
        [j \in 1..n |-> FMul(std, Gauss(stream, pos + (i - 1) * n + (j - 1)))]]

\* normal(0, std, (m, n)).T @ source, for a 2-D source (n x F') and for a
\* 1-D source (a vector of n entries).
CalBlock(source, n, stream, pos) ==
    LET m == source.shape[1]
        std == FDiv(Unit, FSqrt(ToFloat("int", m)))
        W == Normal(stream, pos, std, m, n)
        cols == IF Len(source.shape) = 2 THEN source.shape[2] ELSE 1
        prod == [j \in 1..n |->
                    [c \in 1..cols |->
                        SumSeq([i \in 1..m |-> FMul(W[i][j], source.data[i][c])])]]
    IN  IF Len(source.shape) = 2
        THEN [nd |-> 2, rows |-> prod]
        ELSE [nd |-> 1, rows |-> <<[j \in 1..n |-> prod[j][1]]>>]

\* Whether X_gen_ += P broadcasts P to the shape of X_gen_.
BroadcastOk(block, P) ==
    /\ NRows(P.rows) = NRows(block) \/ NRows(P.rows) = 1
    /\ NCols(P.rows) = NCols(block) \/ NCols(P.rows) = 1

\* X_gen_ += P.
BroadcastAdd(block, P) ==
    [r \in 1..NRows(block) |->
        [c \in 1..NCols(block) |->
            FAdd(block[r][c],
                 P.rows[IF NRows(P.rows) = 1 THEN 1 ELSE r]
                       [IF NCols(P.rows) = 1 THEN 1 ELSE c])]]

\* The loop over self.variability_sources for one seed (73-79).
RECURSIVE PerturbBlock(_, _, _, _, _, _)
PerturbBlock(block, sources, n, stream, pos, noisePos) ==
    IF sources = <<>>
    THEN [ok |-> TRUE, block |-> block, pos |-> pos, noise |-> noisePos]
    ELSE LET source == Head(sources)
             P == IF IsCallable(source)
                  THEN GenBlock(source, n, noisePos)
                  ELSE CalBlock(source, n, stream, pos)
             pos2 == IF IsCallable(source) THEN pos ELSE pos + source.shape[1] * n
             noise2 == IF IsCallable(source) THEN noisePos + n ELSE noisePos
         IN  IF BroadcastOk(block, P)
             THEN PerturbBlock(BroadcastAdd(block, P), Tail(sources), n,
                               stream, pos2, noise2)
             ELSE [ok |-> FALSE, block |-> block, pos |-> pos2, noise |-> noise2]

\* The loop over the seeds (71-81): the blocks and label tiles appended.
RECURSIVE SeedLoop(_, _, _, _, _, _, _, _)
SeedLoop(X_seeds, y_seeds, sources, n, stream, pos, noisePos, acc) ==
    IF X_seeds = <<>>
    THEN [ok |-> TRUE, X_gen |-> acc.X_gen, y_gen |-> acc.y_gen,
          pos |-> pos, noise |-> noisePos]
    ELSE LET b == PerturbBlock(Tile(Head(X_seeds), n), sources, n,
                               stream, pos, noisePos)
         IN  IF b.ok
             THEN SeedLoop(Tail(X_seeds), Tail(y_seeds), sources, n, stream,
                           b.pos, b.noise,
                           [X_gen |-> Append(acc.X_gen, b.block),
                            y_gen |-> Append(acc.y_gen, Repeat(Head(y_seeds), n))])
             ELSE [ok |-> FALSE, X_gen |-> acc.X_gen, y_gen |-> acc.y_gen,
                   pos |-> b.pos, noise |-> b.noise]

\* How a call ends: status "returned" with X_gen and y_gen (y_none: y_gen is
\* None), or the exception raised and the place it is raised at; pos and
\* noise are the positions of self.rand and of the callables afterwards.
Outcome(status, at, X_gen, y_gen, y_none, X_seeds, y_seeds, pos, noisePos) ==
    [status |-> status, at |-> at, X_gen |-> X_gen, y_gen |-> y_gen,
     y_none |-> y_none, X_seeds |-> X_seeds, y_seeds |-> y_seeds,
     pos |-> pos, noise |-> noisePos]

NoOutcome == Outcome("none", "", <<>>, <<>>, TRUE, <<>>, <<>>, 0, 0)

\* A generator made anew, at the start of its stream, by every call.
RandPosReset(self) == 0

\* The position self.rand has reached when a call starts: the generator is
\* the one made by __init__, never made anew.
RandPos(self) == self.rand.pos

\* generate_samples(X, seed_strategy, n_per_seed, y) on the instance self.
GenerateSamples(self, c, noisePos) ==
    LET pos == RandPos(self)
    IN
    IF CheckArgs(c) # "ok"
    THEN Outcome("ValueError", "check", <<>>, <<>>, TRUE, <<>>, <<>>, pos, noisePos)
    ELSE
    LET hasY == c.y.kind # "none"
        Xf == XAsFloat(c.X)
        yf == IF hasY THEN YAsFloat(c.y) ELSE <<>>
        seeds == GetSeedSamples(Xf, yf, hasY, c.y.shape, c.X.shape, c.seed_strategy)
        n == c.n_per_seed.v
    IN
    IF seeds.status # "ok"
    THEN Outcome(seeds.status, "seeds", <<>>, <<>>, TRUE, <<>>, <<>>, pos, noisePos)
    ELSE
    LET loop == SeedLoop(seeds.X_seeds, seeds.y_seeds,
                         self.variability_sources.elems, n,
                         self.rand.stream, pos, noisePos,
                         [X_gen |-> <<>>, y_gen |-> <<>>])
    IN
    IF ~loop.ok
    THEN \* X_gen_ += ... : operands could not be broadcast together
         Outcome("ValueError", "perturb", <<>>, <<>>, TRUE,
                 seeds.X_seeds, seeds.y_seeds, loop.pos, loop.noise)
    ELSE IF loop.X_gen = <<>>
    THEN \* np.vstack([]): need at least one array to concatenate
         Outcome("ValueError", "vstack", <<>>, <<>>, TRUE,
                 seeds.X_seeds, seeds.y_seeds, loop.pos, loop.noise)
    ELSE Outcome("returned", "", Concat(loop.X_gen),
                 IF hasY THEN Concat(loop.y_gen) ELSE <<>>, ~hasY,
                 seeds.X_seeds, seeds.y_seeds, loop.pos, loop.noise)

(* ------------------------------- state --------------------------------- *)

VARIABLES
    ctor,     \* the constructor call: its arguments and how it ended
    inst,     \* the CODI instance: variability_sources, random_state, rand
    twin,     \* a second instance constructed with the same arguments
    noise,    \* invocations made so far of the callables (their stream position)
    ncalls,   \* generate_samples calls made so far on inst
    pc,       \* "idle", or "returned" while the last call's result is held
    call,     \* the arguments of the last generate_samples call
    out,      \* how that call ended on inst, with X_gen and y_gen
    outTwin   \* how the same call ended on twin

vars == <<ctor, inst, twin, noise, ncalls, pc, call, out, outTwin>>

NoCall == CallArgs(XList, "", NPerSeed(TRUE, 0), YNone)

Init ==
    /\ ctor = [status |-> "none",
               variability_sources |-> Collection("list", <<>>),
               random_state |-> RandomState(FALSE, 0)]
    /\ inst = NoInstance
    /\ twin = NoInstance
    /\ noise = 0
    /\ ncalls = 0
    /\ pc = "idle"
    /\ call = NoCall
    /\ out = NoOutcome
    /\ outTwin = NoOutcome

\* A generator that ignores random_state and always seeds from entropy.
StreamsOfEntropy(random_state) == EntropyStreams

\* The stream np.random.RandomState(random_state) starts: the seed's own,
\* or any stream when random_state is None.
StreamsOf(random_state) ==
    IF random_state.given THEN {random_state.seed} ELSE EntropyStreams

\* CODI(variability_sources, random_state): raises, or builds the instance.
Construct(variability_sources, random_state) ==
    /\ ctor.status = "none"
    /\ ctor' = [status |-> InitCheck(variability_sources),
                variability_sources |-> variability_sources,
                random_state |-> random_state]
    /\ IF InitCheck(variability_sources) = "ok"
       THEN \E stream \in StreamsOf(random_state) :
                inst' = NewInstance(variability_sources, random_state, stream)
       ELSE inst' = inst
    /\ UNCHANGED <<twin, noise, ncalls, pc, call, out, outTwin>>

\* A second CODI(...) with the arguments of the first, before any call.
ConstructTwin ==
    /\ inst.live /\ ~twin.live /\ ncalls = 0
    /\ \E stream \in StreamsOf(ctor.random_state) :
           twin' = NewInstance(ctor.variability_sources, ctor.random_state, stream)
    /\ UNCHANGED <<ctor, inst, noise, ncalls, pc, call, out, outTwin>>

\* inst.generate_samples(X, seed_strategy, n_per_seed, y).
Generate(c) ==
    /\ inst.live /\ pc = "idle" /\ ncalls < MaxCalls
    /\ LET r == GenerateSamples(inst, c, noise)
       IN  /\ out' = r
           /\ inst' = [inst EXCEPT !.rand.pos = r.pos]
           /\ noise' = r.noise
    /\ call' = c
    /\ ncalls' = ncalls + 1
    /\ pc' = "returned"
    /\ outTwin' = NoOutcome
    /\ UNCHANGED <<ctor, twin>>

\* twin.generate_samples(...) with the arguments inst was just called with.
GenerateTwin ==
    /\ twin.live /\ pc = "returned" /\ outTwin.status = "none"
    /\ LET r == GenerateSamples(twin, call, noise)
       IN  /\ outTwin' = r
           /\ twin' = [twin EXCEPT !.rand.pos = r.pos]
           /\ noise' = r.noise
    /\ UNCHANGED <<ctor, inst, ncalls, pc, call, out>>

\* The caller drops the results of the last call.
Return ==
    /\ pc = "returned"
    /\ twin.live => outTwin.status # "none"
    /\ pc' = "idle"
    /\ call' = NoCall
    /\ out' = NoOutcome
    /\ outTwin' = NoOutcome
    /\ UNCHANGED <<ctor, inst, twin, noise, ncalls>>

\* One instance, constructed from any of the collections with the seed 0
\* and called with any of the calls.
Next ==
    \/ \E vs \in SourceCollections : Construct(vs, RandomState(TRUE, 0))
    \/ \E c \in Calls : Generate(c)
    \/ Return

Spec == Init /\ [][Next]_vars

\* Two instances constructed with the same arguments (a seed or None) and
\* given the same calls, one after the other.
TwinCollections ==
    {Collection("list", e) : e \in
        {<<GenStream>>, <<CalSet>>, <<GenZero, CalSet>>, <<CalSet, GenStream>>}}

TwinCalls ==
    UNION {{CallArgs(XInt(m), s, NPerSeed(TRUE, k), y) :
                s \in Strategies, k \in {1, MaxK}, y \in {YNone} \cup YVecs(m)} :
           m \in {0, MaxN}}

NextTwin ==
    \/ \E vs \in TwinCollections, rs \in RandomStates : Construct(vs, rs)
    \/ ConstructTwin
    \/ \E c \in TwinCalls : Generate(c)
    \/ GenerateTwin
    \/ Return

SpecTwin == Init /\ [][NextTwin]_vars

(* ------------------------------ claims --------------------------------- *)

\* The last call has ended and its result is held.
Done == pc = "returned"

Returned == Done /\ out.status = "returned"

K == call.n_per_seed.v

N == call.X.shape[1]

F == call.X.shape[2]

Sources == inst.variability_sources.elems

\* A call as the contract words it: X a 2-D ndarray, seed_strategy 'all' or
\* 'mean', n_per_seed a positive int, y absent or a 1-D ndarray of N labels.
ValidArgs(c) ==
    /\ c.X.kind = "ndarray" /\ Len(c.X.shape) = 2
    /\ c.seed_strategy \in {"all", "mean"}
    /\ c.n_per_seed.int /\ c.n_per_seed.v >= 1
    /\ \/ c.y.kind = "none"
       \/ c.y.kind = "ndarray" /\ c.y.shape = <<c.X.shape[1]>>

\* Entry c of row i of X, and label i of y, as numbers in float units.
XVal(i, c) == call.X.data[i][1][c] * (IF call.X.dtype = "int" THEN Unit ELSE 1)

YVal(i) == call.y.data[i][1] * Unit

\* A source whose feature dimension is f: a callable returning f entries,
\* or a calibration set of shape (M, f).
Fits(source, f) ==
    \/ source.kind = "callable" /\ source.len = f
    \/ source.kind = "ndarray" /\ Len(source.shape) = 2 /\ source.shape[2] = f

\* A source that perturbs by zero.
IsZero(source) ==
    \/ source.kind = "callable" /\ source.noise = "zero"
    \/ /\ source.kind = "ndarray"
       /\ \A i \in 1..Len(source.data) :
              \A c \in 1..Len(source.data[i]) : source.data[i][c] = 0

\* The number of seeds the contract gives a call.
NumSeeds ==
    IF call.seed_strategy = "all" THEN N
    ELSE IF call.y.kind = "none" THEN 1
    ELSE Cardinality({call.y.data[i][1] : i \in 1..N})

\* An instance as the constructor documents it: built from a list whose
\* elements are callables and 2-D arrays.
Documented ==
    /\ inst.variability_sources.kind = "list"
    /\ \A q \in 1..Len(Sources) :
           Sources[q].kind = "ndarray" => Len(Sources[q].shape) = 2

\* C1 as stated: every valid call, the empty X included, returns X_gen
\* with (number of seeds x n_per_seed) rows of F columns; y_gen is None
\* exactly when y is None and else holds, at j, the label of seed j div k.
C1_ShapeOfOutput ==
    (Done /\ ValidArgs(call) /\ \A q \in 1..Len(Sources) : Fits(Sources[q], F))
    => /\ out.status = "returned"
       /\ Len(out.X_gen) = NumSeeds * K
       /\ \A r \in 1..Len(out.X_gen) : Len(out.X_gen[r]) = F
       /\ out.y_none <=> call.y.kind = "none"
       /\ ~out.y_none =>
            /\ Len(out.y_gen) = NumSeeds * K
            /\ \A j \in 1..Len(out.y_gen) :
                   out.y_gen[j] = out.y_seeds[((j - 1) \div K) + 1][1]

\* The same statement for the calls whose X has at least one row.
C1_ShapeOfOutputNonEmpty == N >= 1 => C1_ShapeOfOutput

\* C2: with seed_strategy 'all' the seeds are the rows of X in order, each
\* with the label of the same index (or none); when every source perturbs
\* by zero, a call on a non-empty X returns, and a returned X_gen has N*k
\* rows, row k*i+j being row i of X.
C2_AllSeedsIdentity ==
    (Done /\ ValidArgs(call) /\ call.seed_strategy = "all")
    => /\ Len(out.X_seeds) = N /\ Len(out.y_seeds) = N
       /\ \A i \in 1..N :
            /\ out.X_seeds[i] = << [c \in 1..F |-> XVal(i, c)] >>
            /\ out.y_seeds[i] = IF call.y.kind = "none" THEN <<>> ELSE <<YVal(i)>>
       /\ (\A q \in 1..Len(Sources) : IsZero(Sources[q]) /\ Fits(Sources[q], F))
          => /\ N >= 1 => out.status = "returned"
             /\ out.status = "returned" =>
                  /\ Len(out.X_gen) = N * K
                  /\ \A i \in 1..N : \A j \in 1..K : \A c \in 1..F :
                         /\ Len(out.X_gen[K * (i - 1) + j]) = F
                         /\ out.X_gen[K * (i - 1) + j][c] = XVal(i, c)

\* C2's case: two rows, several samples per seed, a zero callable and an
\* all-zero calibration set.
C2_Witness ==
    /\ Returned /\ call.seed_strategy = "all" /\ ValidArgs(call)
    /\ N = 2 /\ K >= 2 /\ call.y.kind = "ndarray"
    /\ Len(Sources) = 2
    /\ \A q \in 1..2 : IsZero(Sources[q]) /\ Fits(Sources[q], F)
    /\ \E q \in 1..2 : Sources[q].kind = "callable"

\* The sum of column c of the rows of X with an index in I.
RECURSIVE ColSum(_, _)
ColSum(I, c) ==
    IF I = {} THEN 0
    ELSE LET i == CHOOSE x \in I : TRUE IN XVal(i, c) + ColSum(I \ {i}, c)

\* vec is the column-wise mean of the rows of X with an index in I (to the
\* float below; NaN in every column when I is empty).
IsMeanOf(vec, I) ==
    /\ Len(vec) = F
    /\ \A c \in 1..F :
          IF I = {} THEN vec[c] = NaN
          ELSE /\ Cardinality(I) * vec[c] <= ColSum(I, c)
               /\ ColSum(I, c) < Cardinality(I) * vec[c] + Cardinality(I)

\* C3: with seed_strategy 'mean' and no y there is one seed, the mean of all
\* rows, with no label, and a returned X_gen has n_per_seed rows (the rows
\* [2.0, 3.0] for X = [[1,2],[3,4]] and no sources); with y there is one
\* seed per distinct label, the mean of the rows of that label, and a
\* returned output has L*n_per_seed rows, each tile holding its seed's label.
C3_MeanSeeds ==
    (Done /\ ValidArgs(call) /\ call.seed_strategy = "mean")
    => IF call.y.kind = "none"
       THEN /\ Len(out.X_seeds) = 1
            /\ out.y_seeds = << <<>> >>
            /\ Len(out.X_seeds[1]) = 1
            /\ IsMeanOf(out.X_seeds[1][1], 1..N)
            /\ out.status = "returned" => Len(out.X_gen) = K /\ out.y_none
            /\ (call.X = XInt(2) /\ Sources = <<>> /\ K = 3)
               => /\ out.status = "returned"
                  /\ out.X_gen = << <<2 * Unit, 3 * Unit>>, <<2 * Unit, 3 * Unit>>,
                                    <<2 * Unit, 3 * Unit>> >>
       ELSE LET L == Cardinality({YVal(i) : i \in 1..N})
            IN  /\ Len(out.X_seeds) = L /\ Len(out.y_seeds) = L
                /\ {out.y_seeds[s][1] : s \in 1..L} = {YVal(i) : i \in 1..N}
                /\ \A s \in 1..L :
                     /\ Len(out.X_seeds[s]) = 1
                     /\ IsMeanOf(out.X_seeds[s][1],
                                 {i \in 1..N : YVal(i) = out.y_seeds[s][1]})
                /\ out.status = "returned" =>
                     /\ Len(out.X_gen) = L * K
                     /\ ~out.y_none /\ Len(out.y_gen) = L * K
                     /\ \A s \in 1..L : \A j \in 1..K :
                            out.y_gen[K * (s - 1) + j] = out.y_seeds[s][1]

\* C3's case: two rows with two distinct labels, the later label first.
C3_Witness ==
    /\ Returned /\ call.seed_strategy = "mean" /\ ValidArgs(call)
    /\ N = 2 /\ call.y.kind = "ndarray"
    /\ call.y.data[1][1] > call.y.data[2][1]
    /\ Len(out.X_seeds) = 2
    /\ K >= 2

\* Both instances have ended the same call.
BothDone == Done /\ twin.live /\ outTwin.status # "none"

SameResult ==
    /\ out.status = outTwin.status
    /\ out.X_gen = outTwin.X_gen
    /\ out.y_gen = outTwin.y_gen
    /\ out.y_none = outTwin.y_none

\* C4 as stated: two instances built with the same integer random_state and
\* the same sources return the same X_gen and y_gen on every call, whatever
\* the sources are.
C4_Determinism ==
    (BothDone /\ ctor.random_state.given) => SameResult

\* C4 as amended: the same, for sources that are calibration sets or
\* callables whose results do not vary from one invocation to the next.
C4_DeterminismOfCalibration ==
    (/\ BothDone /\ ctor.random_state.given
     /\ \A q \in 1..Len(Sources) :
            Sources[q].kind = "callable" => Sources[q].noise = "zero")
    => SameResult

\* C4's case: the second call on both instances, with a calibration set
\* that has drawn from both generators.
C4_Witness ==
    /\ BothDone /\ ctor.random_state.given /\ ncalls = 2
    /\ out.status = "returned" /\ outTwin.status = "returned"
    /\ \E q \in 1..Len(Sources) :
           Sources[q].kind = "ndarray" /\ Sources[q].shape[1] = 2
    /\ inst.rand.pos > Len(out.X_seeds) * K * 2
    /\ twin.rand.pos = inst.rand.pos

\* The arguments C5 names as invalid.
Faulty(c) ==
    \/ c.X.kind # "ndarray"
    \/ c.seed_strategy \notin {"all", "mean"}
    \/ ~c.n_per_seed.int
    \/ c.n_per_seed.v <= 0
    \/ c.X.kind = "ndarray" /\ c.y.kind = "ndarray" /\ c.y.shape[1] # c.X.shape[1]

\* A step that is a generate_samples call on inst.
IsCall == pc = "idle" /\ pc' = "returned"

\* C5: a call with a non-array X, an unknown seed_strategy, an n_per_seed
\* that is 0, negative or no int, or a y of another length than X raises
\* ValueError from the argument checks, gives no output, invokes no callable
\* and leaves the instance's random generator where it was.
C5_InvalidArgument ==
    [][(IsCall /\ Faulty(call'))
       => /\ out'.status = "ValueError" /\ out'.at = "check"
          /\ out'.X_gen = <<>> /\ out'.y_gen = <<>>
          /\ inst'.rand = inst.rand
          /\ noise' = noise]_vars

\* C5's case: a faulty call on an instance that holds a callable and a
\* calibration set, after a call that used both.
C5_Witness ==
    /\ Done /\ Faulty(call) /\ out.status = "ValueError"
    /\ ncalls = 2 /\ noise > 0 /\ inst.rand.pos > 0
    /\ \E q \in 1..Len(Sources) : Sources[q].kind = "callable"

\* C6 as stated (for a documented instance): a call whose X is an ndarray
\* that is not 2-D, or whose y is an ndarray that is not 1-D, raises
\* ValueError from the argument checks.
C6_DimensionsChecked ==
    (/\ Done /\ Documented /\ call.X.kind = "ndarray"
     /\ \/ Len(call.X.shape) # 2
        \/ call.y.kind = "ndarray" /\ Len(call.y.shape) # 1)
    => out.status = "ValueError" /\ out.at = "check"

\* What C7 names as invalid sources: a collection that is no flat sequence,
\* or an element that is neither a callable nor a 2-D ndarray.
BadSources(vs) ==
    \/ vs.kind \notin {"list", "tuple"}
    \/ \E i \in 1..Len(vs.elems) :
           /\ vs.elems[i].kind # "callable"
           /\ ~(vs.elems[i].kind = "ndarray" /\ Len(vs.elems[i].shape) = 2)

\* C7 as stated: constructing with such sources raises ValueError and
\* creates no instance.
C7_SourcesChecked ==
    (ctor.status # "none" /\ BadSources(ctor.variability_sources))
    => ctor.status = "ValueError" /\ ~inst.live

\* C8 as stated: a source whose feature dimension is not F (1 included)
\* makes a valid call on a non-empty X end in the shape-mismatch error of
\* the perturbation, with no X_gen.
C8_ShapeMismatch ==
    (/\ Done /\ ValidArgs(call) /\ N >= 1
     /\ \E q \in 1..Len(Sources) :
            \/ Sources[q].kind = "callable" /\ Sources[q].len # F
            \/ /\ Sources[q].kind = "ndarray" /\ Len(Sources[q].shape) = 2
               /\ Sources[q].shape[2] # F)
    => out.status = "ValueError" /\ out.at = "perturb" /\ out.X_gen = <<>>

\* The same statement for feature dimensions other than 1 and F.
C8_ShapeMismatchNotOne ==
    (/\ Done /\ ValidArgs(call) /\ N >= 1
     /\ \E q \in 1..Len(Sources) :
            \/ Sources[q].kind = "callable" /\ Sources[q].len \notin {1, F}
            \/ /\ Sources[q].kind = "ndarray" /\ Len(Sources[q].shape) = 2
               /\ Sources[q].shape[2] \notin {1, F})
    => out.status = "ValueError" /\ out.at = "perturb" /\ out.X_gen = <<>>

RECURSIVE SumInts(_)
SumInts(s) == IF s = <<>> THEN 0 ELSE Head(s) + SumInts(Tail(s))

\* Among the sources before the q-th: the callables, and the rows of the
\* calibration sets.
CallablesBefore(q) ==
    Cardinality({p \in 1..(q - 1) : Sources[p].kind = "callable"})

RowsBefore(q) ==
    SumInts([p \in 1..(q - 1) |->
                IF Sources[p].kind = "ndarray" THEN Sources[p].shape[1] ELSE 0])

AllCallables == CallablesBefore(Len(Sources) + 1)

AllRows == RowsBefore(Len(Sources) + 1)

\* The standard deviation 1/sqrt(M) of the draws for a calibration set of M
\* rows (none are drawn for M = 0).
StdOf(source) ==
    IF source.kind = "ndarray" /\ source.shape[1] >= 1
    THEN FDiv(Unit, FSqrt(source.shape[1] * Unit))
    ELSE 0

\* What source q adds to column c of generated row j of seed i, in a call of
\* k rows per seed that starts with the random generator at pos0 and the
\* callables at invocation noise0: the j-th vector the callable returns for
\* this seed, or the sum over the calibration rows r of W[r][j] * C[r][c],
\* W being the single M x k draw made for (seed i, source q). G[q] and R[q]
\* are the callables and the calibration rows before source q, std[q] is
\* the standard deviation of its draws.
Perturbation(q, i, j, c, k, pos0, noise0, G, R, std) ==
    LET source == Sources[q]
        all == Len(Sources) + 1
    IN  IF source.kind = "callable"
        THEN GenValue(source,
                      noise0 + (i - 1) * k * G[all] + k * G[q] + (j - 1), c)
        ELSE LET first == pos0 + (i - 1) * k * R[all] + k * R[q]
             IN  SumSeq([r \in 1..source.shape[1] |->
                            FMul(FMul(std[q],
                                      Gauss(inst.rand.stream,
                                            first + (r - 1) * k + (j - 1))),
                                 source.data[r][c])])

\* C9: in a valid call whose sources all have feature dimension F, every
\* seed has every source applied once, in the order of construction: each
\* callable is invoked n_per_seed times per seed, each calibration set of M
\* rows draws M*n_per_seed values per seed, the draws being consumed in
\* (seed, source) order, and generated row j of a seed is the seed plus the
\* row-j perturbations of all sources.
C9_PerturbationOrder ==
    [][(/\ IsCall /\ ValidArgs(call')
        /\ \A q \in 1..Len(Sources) : Fits(Sources[q], F'))
       => LET k == call'.n_per_seed.v
              seeds == out'.X_seeds
              G == [q \in 1..(Len(Sources) + 1) |-> CallablesBefore(q)]
              R == [q \in 1..(Len(Sources) + 1) |-> RowsBefore(q)]
              std == [q \in 1..Len(Sources) |-> StdOf(Sources[q])]
          IN  /\ noise' = noise + Len(seeds) * k * AllCallables
              /\ inst'.rand.pos = inst.rand.pos + Len(seeds) * k * AllRows
              /\ Len(seeds) >= 1 => out'.status = "returned"
              /\ out'.status = "returned" =>
                   \A i \in 1..Len(seeds) : \A j \in 1..k : \A c \in 1..F' :
                       out'.X_gen[k * (i - 1) + j][c] =
                           SumSeq(<<seeds[i][1][c]>> \o
                                  [q \in 1..Len(Sources) |->
                                      Perturbation(q, i, j, c, k, inst.rand.pos,
                                                   noise, G, R, std)])]_vars

\* C9's case: the second call on an instance with a calibration set of two
\* rows and a callable, two seeds and two rows per seed.
C9_Witness ==
    /\ Returned /\ ValidArgs(call) /\ ncalls = 2
    /\ Len(Sources) = 2 /\ AllCallables = 1 /\ AllRows = 2
    /\ \A q \in 1..2 : Fits(Sources[q], F) /\ ~IsZero(Sources[q])
    /\ Len(out.X_seeds) = 2 /\ K >= 2
    /\ inst.rand.pos > 8 /\ noise > 4

\* C10 as stated (for a documented instance and valid calls): the generator
\* keeps its stream, and its position is advanced by the draws of the calls
\* that returned (M*n_per_seed per calibration source per seed) and by
\* nothing else.
C10_AdvancedByReturnedCalls ==
    [][(inst.live /\ Documented /\ (IsCall => ValidArgs(call')))
       => /\ inst'.rand.stream = inst.rand.stream
          /\ inst'.rand.pos = inst.rand.pos
                + (IF IsCall /\ out'.status = "returned"
                   THEN Len(out'.X_seeds) * call'.n_per_seed.v * AllRows
                   ELSE 0)]_vars

\* Whether the perturbation of source q broadcasts to a block of n_per_seed
\* copies of one item of X: its shape is (k, len) for a callable, (k, F')
\* for a calibration set of shape (M, F'), (k,) for a 1-D array.
Broadcasts(q, c) ==
    LET k == c.n_per_seed.v
        rows == k * ItemRows(c.X.shape)
        cols == ItemCols(c.X.shape)
        source == Sources[q]
    IN  IF source.kind = "ndarray" /\ Len(source.shape) = 1
        THEN k = cols \/ k = 1
        ELSE /\ k = rows \/ k = 1
             /\ LET f == IF source.kind = "callable"
                         THEN source.len ELSE source.shape[2]
                IN  f = cols \/ f = 1

\* The draws a call makes, by the way it ended.
DrawsOfCall(c, o) ==
    IF o.at \in {"check", "seeds"} THEN 0
    ELSE IF o.at # "perturb"
    THEN Len(o.X_seeds) * c.n_per_seed.v * AllRows
    ELSE IF \A q \in 1..Len(Sources) : Broadcasts(q, c)
    THEN -1
    ELSE LET bad == CHOOSE q \in 1..Len(Sources) :
                        /\ ~Broadcasts(q, c)
                        /\ \A p \in 1..(q - 1) : Broadcasts(p, c)
         IN  c.n_per_seed.v * RowsBefore(bad + 1)

\* C10 as amended: the generator keeps its stream and is advanced by every
\* call by exactly the draws the call makes, and by nothing else: a call
\* that returns draws M*n_per_seed values per calibration source per seed,
\* a call the argument checks reject draws none, and a call that ends in the
\* shape-mismatch error has drawn, for its first seed, for every calibration
\* source up to and including the source that fails. A call that returns
\* with a calibration source of M >= 1 rows moves the position forward, a
\* call without calibration sources leaves it.
C10_AdvancedByEveryCall ==
    [][inst.live
       => /\ inst'.rand.stream = inst.rand.stream
          /\ inst'.rand.pos = inst.rand.pos
                + (IF IsCall THEN DrawsOfCall(call', out') ELSE 0)
          /\ (IsCall /\ out'.status = "returned" /\ AllRows >= 1)
             => inst'.rand.pos > inst.rand.pos
          /\ (IsCall /\ AllRows = 0) => inst'.rand.pos = inst.rand.pos]_vars

\* C10's case: a second call that returns after a first call that drew.
C10_Witness ==
    /\ Returned /\ ncalls = 2 /\ AllRows >= 1
    /\ inst.rand.pos > Len(out.X_seeds) * K * AllRows

\* C10's other case: a call that drew and then failed in the perturbation.
C10_WitnessFailed ==
    /\ Done /\ out.at = "perturb" /\ inst.rand.pos > 0

====
